---- MODULE Spec2Model ----
(***************************************************************************)
(* Thread/message synchronisation core of the chat front end               *)
(* (src/nhost-next/src/app/components/ChatManager.tsx, ChatManager).       *)
(*                                                                         *)
(* The component is a single-threaded React component.  Every asynchronous *)
(* function is cut at its awaits: the part run by a gesture or an effect   *)
(* issues a gateway request that carries the values the closure captured,  *)
(* the gateway answers it at some later time, and the continuation runs    *)
(* when the answer is delivered.  Answers are delivered in any order.      *)
(* The effects that a state change triggers run in the same step as the    *)
(* handler that made the change.                                           *)
(***************************************************************************)
EXTENDS Naturals, Sequences, FiniteSets

\* ---------------------------------------------------------------- bounds
\* User gestures that change something (sign in, sign out, createThread,
\* selectThread, accepted sendMessage calls) in one run.
MaxGestures == 2
\* In a run of Spec the user makes such a gesture only while fewer requests
\* than this are in flight; in a run of SpecSettled, only while none is.
MaxInFlight == 2
\* Threads the remote store may hold before the session starts.
MaxSeedThreads == 2
\* Requests the gateway refuses or the transport loses in one run.
MaxFailures == 1

\* ------------------------------------------------------------- vocabulary
\* null of activeThreadId and of a returned id; thread and message ids are >= 1
Null == 0
\* user?.id of a signed-out session (falsy)
NoUser == ""
UserId == "u1"
\* error === null
NoError == "null"

\* content strings are sequences of characters
Whitespace == {" ", "\t", "\n"}
Contents == { <<" ", "\t">>, <<" ", "a", " ">> }

VARIABLES
  user,            \* useUserData()?.id
  threads,         \* useState<Thread[]>
  messages,        \* useState<Message[]>
  activeThreadId,  \* useState<string | null>
  isLoading,       \* useState(true)
  error,           \* useState<string | null>
  net,             \* gateway requests in flight, each with its closure
  nextRid,         \* number of gateway requests issued so far, plus one
  srvThreads,      \* remote store: threads relation
  srvMessages,     \* remote store: messages relation
  clock,           \* wall clock (now() of the store, new Date() of the client)
  fetched,         \* history: the latest fetchThreads call whose result was installed
  issued,          \* history: the fetchThreads call started last
  gestures,        \* user gestures made so far
  failures,        \* requests refused or lost so far
  last             \* the step taken last: which code ran, on what, its result

vars == << user, threads, messages, activeThreadId, isLoading, error, net,
           nextRid, srvThreads, srvMessages, clock, fetched, issued, gestures,
           failures, last >>

\* ------------------------------------------------------------ pure helpers
RECURSIVE TrimStart(_)
TrimStart(s) ==
  IF s # <<>> /\ Head(s) \in Whitespace THEN TrimStart(Tail(s)) ELSE s

RECURSIVE TrimEnd(_)
TrimEnd(s) ==
  IF s # <<>> /\ s[Len(s)] \in Whitespace
    THEN TrimEnd(SubSeq(s, 1, Len(s) - 1))
    ELSE s

\* String.prototype.trim
Trim(s) == TrimEnd(TrimStart(s))

\* order_by: {updated_at: desc}
RECURSIVE OrderByUpdatedDesc(_)
OrderByUpdatedDesc(S) ==
  IF S = {} THEN <<>>
  ELSE LET m == CHOOSE t \in S : \A u \in S : u.updated_at <= t.updated_at
       IN  <<m>> \o OrderByUpdatedDesc(S \ {m})

\* order_by: {created_at: asc}
RECURSIVE OrderByCreatedAsc(_)
OrderByCreatedAsc(S) ==
  IF S = {} THEN <<>>
  ELSE LET m == CHOOSE t \in S : \A u \in S : t.created_at <= u.created_at
       IN  <<m>> \o OrderByCreatedAsc(S \ {m})

Range(s) == { s[i] : i \in 1..Len(s) }

\* prev.map(thread => thread.id === id ? {...thread, updated_at: now} : thread)
TouchLocal(thr, id, now) ==
  [ i \in 1..Len(thr) |->
      IF thr[i].id = id THEN [thr[i] EXCEPT !.updated_at = now] ELSE thr[i] ]

\* ----------------------------------------------------------------- records
\* A gateway request in flight and the closure of the function awaiting it:
\*   tid      activeThreadId as the closure captured it (the $thread_id sent)
\*   input    the content argument of sendMessage, as passed
\*   content  $content as sent
\*   um, bm   userMessageData, botMessageData already received
\*   status   "sent", or how it was answered: "data" | "error" | "throw"
\*   call     the rid of the first request of the same function call
Request(rid, op, tid, isUser, input, content, um, bm) ==
  [ rid |-> rid, call |-> rid,
    op |-> op, tid |-> tid, is_user |-> isUser, input |-> input,
    content |-> content, um |-> um, bm |-> bm,
    status |-> "sent", threads |-> <<>>, messages |-> <<>> ]

Step(op, tid, content, ret) ==
  [ op |-> op, tid |-> tid, content |-> content, ret |-> ret ]

\* ------------------------------------------------------------ remote store
NewThread == [ id |-> Cardinality(srvThreads) + 1, updated_at |-> clock + 1 ]

NewMessage(r) ==
  [ id |-> Cardinality(srvMessages) + 1, thread_id |-> r.tid,
    is_user |-> r.is_user, content |-> r.content, created_at |-> clock + 1 ]

\* threads(where: {user_id: {_eq: $user_id}}, order_by: {updated_at: desc})
GetThreadsRows == OrderByUpdatedDesc(srvThreads)

\* messages(where: {thread_id: {_eq: $thread_id}}, order_by: {created_at: asc})
GetMessagesRows(tid) ==
  OrderByCreatedAsc({ m \in srvMessages : m.thread_id = tid })

\* update_threads_by_pk(pk_columns: {id: $thread_id}, _set: {updated_at: "now()"})
TouchRemote(tid) ==
  { IF t.id = tid THEN [t EXCEPT !.updated_at = clock + 1] ELSE t : t \in srvThreads }

\* The store executes request r and answers with the rows.
GatewayApply(r) ==
  /\ r.status = "sent"
  /\ \/ /\ r.op = "GetThreads"
        /\ net' = (net \ {r}) \cup {[r EXCEPT !.status = "data", !.threads = GetThreadsRows]}
        /\ UNCHANGED << srvThreads, srvMessages, clock, gestures, failures, fetched >>
     \/ /\ r.op = "GetMessages"
        /\ net' = (net \ {r}) \cup {[r EXCEPT !.status = "data", !.messages = GetMessagesRows(r.tid)]}
        /\ UNCHANGED << srvThreads, srvMessages, clock, gestures, failures, fetched >>
     \/ /\ r.op = "CreateThread"
        /\ srvThreads' = srvThreads \cup {NewThread}
        /\ clock' = clock + 1
        /\ net' = (net \ {r}) \cup {[r EXCEPT !.status = "data", !.threads = <<NewThread>>]}
        /\ UNCHANGED srvMessages
     \/ /\ r.op = "CreateMessage"
        /\ srvMessages' = srvMessages \cup {NewMessage(r)}
        /\ clock' = clock + 1
        /\ net' = (net \ {r}) \cup {[r EXCEPT !.status = "data", !.messages = <<NewMessage(r)>>]}
        /\ UNCHANGED srvThreads
     \/ /\ r.op = "UpdateThreadTimestamp"
        /\ srvThreads' = TouchRemote(r.tid)
        /\ clock' = clock + 1
        /\ net' = (net \ {r}) \cup {[r EXCEPT !.status = "data"]}
        /\ UNCHANGED srvMessages
  /\ last' = Step("gateway", Null, <<>>, Null)
  /\ UNCHANGED << user, threads, messages, activeThreadId, isLoading, error,
                  nextRid, gestures, failures, fetched, issued >>

\* The store refuses request r: the answer carries an error and nothing is
\* written.
GatewayError(r) ==
  /\ r.status = "sent"
  /\ net' = (net \ {r}) \cup {[r EXCEPT !.status = "error"]}
  /\ failures < MaxFailures
  /\ failures' = failures + 1
  /\ last' = Step("gateway", Null, <<>>, Null)
  /\ UNCHANGED << user, threads, messages, activeThreadId, isLoading, error,
                  nextRid, srvThreads, srvMessages, clock, gestures, fetched,
                  issued >>

\* The request fails in transport: nhost.graphql.request rejects.  The
\* request is lost on its way (status "sent") or its answer is (status "data").
TransportFailure(r) ==
  /\ r.status \in {"sent", "data"}
  /\ net' = (net \ {r}) \cup
            {[r EXCEPT !.status = "throw", !.threads = <<>>, !.messages = <<>>]}
  /\ failures < MaxFailures
  /\ failures' = failures + 1
  /\ last' = Step("gateway", Null, <<>>, Null)
  /\ UNCHANGED << user, threads, messages, activeThreadId, isLoading, error,
                  nextRid, srvThreads, srvMessages, clock, gestures, fetched,
                  issued >>

\* ------------------------------------------------------------------ effects
\* A handler leaves the component with user id u, active thread a, thread
\* set thr, message set msgs, loading flag load and error err, after
\* issuing the requests `own` (none or one) and with `keep` still in flight.
\* React then runs the effects whose dependencies changed:
\*   [user?.id, activeThreadId] -> fetchThreads (when the user id is present)
\*   [activeThreadId]           -> fetchMessages
Render(u, a, thr, msgs, load, err, keep, own, step) ==
  LET runThreads  == (u # user \/ a # activeThreadId) /\ u # NoUser
      runMessages == a # activeThreadId
      ridT == nextRid + Cardinality(own)
      ridM == IF runThreads THEN ridT + 1 ELSE ridT
      \* fetchThreads up to its await; its closure holds activeThreadId = a
      fetchThreads ==
        IF runThreads
          THEN {Request(ridT, "GetThreads", a, FALSE, <<>>, <<>>, <<>>, <<>>)}
          ELSE {}
      \* fetchMessages up to its await
      fetchMessages ==
        IF runMessages /\ a # Null
          THEN {Request(ridM, "GetMessages", a, FALSE, <<>>, <<>>, <<>>, <<>>)}
          ELSE {}
  IN  /\ user' = u
      /\ activeThreadId' = a
      /\ threads' = thr
      /\ messages' = IF runMessages /\ a = Null THEN <<>> ELSE msgs
      /\ isLoading' = IF runThreads THEN TRUE ELSE load
      /\ error' = IF runThreads THEN NoError ELSE err
      /\ net' = keep \cup own \cup fetchThreads \cup fetchMessages
      /\ nextRid' = nextRid + Cardinality(own \cup fetchThreads \cup fetchMessages)
      /\ issued' = IF runThreads THEN ridT ELSE issued
      /\ last' = step

\* The bounds on the user's gestures.
GestureAllowed == gestures < MaxGestures /\ Cardinality(net) < MaxInFlight

\* ----------------------------------------------------------------- identity
\* useUserData() starts to return the signed-in user.
SignIn ==
  /\ GestureAllowed
  /\ gestures' = gestures + 1
  /\ user = NoUser
  /\ Render(UserId, activeThreadId, threads, messages, isLoading, error,
            net, {}, Step("signIn", Null, <<>>, Null))
  /\ UNCHANGED << srvThreads, srvMessages, clock, failures, fetched >>

\* useUserData() returns null again (the session ended).
SignOut ==
  /\ GestureAllowed
  /\ gestures' = gestures + 1
  /\ user # NoUser
  /\ Render(NoUser, activeThreadId, threads, messages, isLoading, error,
            net, {}, Step("signOut", Null, <<>>, Null))
  /\ UNCHANGED << srvThreads, srvMessages, clock, failures, fetched >>

\* ------------------------------------------------------------- fetchThreads
\* Mutant of FetchThreadsResume: a failed fetch empties the thread set.
FetchThreadsResumeClear(r) ==
  /\ r.op = "GetThreads"
  /\ r.status # "sent"
  /\ LET fetchedThreads == r.threads
         select == r.status = "data" /\ r.tid = Null /\ Len(fetchedThreads) > 0
     IN  Render(user,
                IF select THEN fetchedThreads[1].id ELSE activeThreadId,
                fetchedThreads,
                messages,
                FALSE,
                CASE r.status = "error" ->
                       "Failed to fetch threads. Make sure GraphQL permissions are set up correctly."
                  [] r.status = "throw" -> "Failed to connect to the database."
                  [] OTHER -> error,
                net \ {r}, {},
                Step("fetchThreads", r.tid, <<>>, Null))
  /\ fetched' = IF r.status = "data" /\ r.rid > fetched THEN r.rid ELSE fetched
  /\ UNCHANGED << srvThreads, srvMessages, clock, gestures, failures >>

\* Mutant of FetchThreadsResume: the fetched rows are merged into the thread
\* set instead of replacing it.
FetchThreadsResumeMerge(r) ==
  /\ r.op = "GetThreads"
  /\ r.status # "sent"
  /\ LET fetchedThreads == r.threads
         select == r.status = "data" /\ r.tid = Null /\ Len(fetchedThreads) > 0
     IN  Render(user,
                IF select THEN fetchedThreads[1].id ELSE activeThreadId,
                IF r.status = "data" THEN fetchedThreads \o threads ELSE threads,
                messages,
                FALSE,
                CASE r.status = "error" ->
                       "Failed to fetch threads. Make sure GraphQL permissions are set up correctly."
                  [] r.status = "throw" -> "Failed to connect to the database."
                  [] OTHER -> error,
                net \ {r}, {},
                Step("fetchThreads", r.tid, <<>>, Null))
  /\ fetched' = IF r.status = "data" /\ r.rid > fetched THEN r.rid ELSE fetched
  /\ UNCHANGED << srvThreads, srvMessages, clock, gestures, failures >>

\* fetchThreads from its await to its end, on the answer r.
FetchThreadsResume(r) ==
  /\ r.op = "GetThreads"
  /\ r.status # "sent"
  /\ LET fetchedThreads == r.threads
         select == r.status = "data" /\ r.tid = Null /\ Len(fetchedThreads) > 0
     IN  Render(user,
                IF select THEN fetchedThreads[1].id ELSE activeThreadId,
                IF r.status = "data" THEN fetchedThreads ELSE threads,
                messages,
                FALSE,
                CASE r.status = "error" ->
                       "Failed to fetch threads. Make sure GraphQL permissions are set up correctly."
                  [] r.status = "throw" -> "Failed to connect to the database."
                  [] OTHER -> error,
                net \ {r}, {},
                Step("fetchThreads", r.tid, <<>>, Null))
  /\ fetched' = IF r.status = "data" /\ r.rid > fetched THEN r.rid ELSE fetched
  /\ UNCHANGED << srvThreads, srvMessages, clock, gestures, failures >>

\* ------------------------------------------------------------ fetchMessages
\* fetchMessages from its await to its end, on the answer r.
FetchMessagesResume(r) ==
  /\ r.op = "GetMessages"
  /\ r.status # "sent"
  /\ Render(user, activeThreadId, threads,
            IF r.status = "data" THEN r.messages ELSE messages,
            isLoading,
            IF r.status = "data" THEN error ELSE "Failed to fetch messages.",
            net \ {r}, {},
            Step(IF r.status = "data" THEN "fetchMessages" ELSE "fetchMessages.failed",
                 r.tid, <<>>, Null))
  /\ UNCHANGED << srvThreads, srvMessages, clock, gestures, failures, fetched >>

\* ------------------------------------------------------------- createThread
\* Mutant of CreateThreadGuard: the user id is not tested.
CreateThreadGuardAlways == TRUE

\* if (!user?.id) return null;
CreateThreadGuard == user # NoUser

\* createThread up to its await, or to its return when there is no user id.
\* last.ret tells the two apart: "pending" is 1, the returned null is Null.
CreateThread ==
  \/ /\ ~CreateThreadGuard
     /\ Render(user, activeThreadId, threads, messages, isLoading, error, net,
               {}, Step("createThread", activeThreadId, <<>>, Null))
     /\ UNCHANGED << srvThreads, srvMessages, clock, gestures, failures, fetched >>
  \/ /\ CreateThreadGuard
     /\ GestureAllowed
     /\ gestures' = gestures + 1
     /\ Render(user, activeThreadId, threads, messages, isLoading, error, net,
               {Request(nextRid, "CreateThread", Null, FALSE, <<>>, <<>>, <<>>, <<>>)},
               Step("createThread", activeThreadId, <<>>, 1))
     /\ UNCHANGED << srvThreads, srvMessages, clock, failures, fetched >>


\* Mutant of CreateThreadResume: the new thread is appended, not prepended.
CreateThreadResumeAppend(r) ==
  /\ r.op = "CreateThread"
  /\ r.status # "sent"
  /\ LET created == r.status = "data" /\ r.threads # <<>>
         newThread == r.threads[1]
     IN  Render(user,
                IF created THEN newThread.id ELSE activeThreadId,
                IF created THEN threads \o <<newThread>> ELSE threads,
                IF created THEN <<>> ELSE messages,
                isLoading,
                IF r.status \in {"error", "throw"}
                  THEN "Failed to create thread." ELSE error,
                net \ {r}, {},
                Step("createThread.return", Null, <<>>,
                     IF created THEN newThread.id ELSE Null))
  /\ UNCHANGED << srvThreads, srvMessages, clock, gestures, failures, fetched >>

\* Mutant of CreateThreadResume: a thread made up by the client is shown when
\* the gateway returned none.
CreateThreadResumeOptimistic(r) ==
  /\ r.op = "CreateThread"
  /\ r.status # "sent"
  /\ LET created == r.status = "data" /\ r.threads # <<>>
         newThread == IF created THEN r.threads[1]
                      ELSE [id |-> Cardinality(srvThreads) + 1, updated_at |-> clock]
     IN  Render(user,
                IF created THEN newThread.id ELSE activeThreadId,
                <<newThread>> \o threads,
                IF created THEN <<>> ELSE messages,
                isLoading,
                IF r.status \in {"error", "throw"}
                  THEN "Failed to create thread." ELSE error,
                net \ {r}, {},
                Step("createThread.return", Null, <<>>,
                     IF created THEN newThread.id ELSE Null))
  /\ UNCHANGED << srvThreads, srvMessages, clock, gestures, failures, fetched >>

\* createThread from its await to its return, on the answer r.
CreateThreadResume(r) ==
  /\ r.op = "CreateThread"
  /\ r.status # "sent"
  /\ LET created == r.status = "data" /\ r.threads # <<>>
         newThread == r.threads[1]
     IN  Render(user,
                IF created THEN newThread.id ELSE activeThreadId,
                IF created THEN <<newThread>> \o threads ELSE threads,
                IF created THEN <<>> ELSE messages,
                isLoading,
                IF r.status \in {"error", "throw"}
                  THEN "Failed to create thread." ELSE error,
                net \ {r}, {},
                Step("createThread.return", Null, <<>>,
                     IF created THEN newThread.id ELSE Null))
  /\ UNCHANGED << srvThreads, srvMessages, clock, gestures, failures, fetched >>

\* ------------------------------------------------------------- selectThread
SelectThread(threadId) ==
  /\ GestureAllowed
  /\ gestures' = gestures + 1
  /\ Render(user, threadId, threads, messages, isLoading, error, net, {},
            Step("selectThread", threadId, <<>>, Null))
  /\ UNCHANGED << srvThreads, srvMessages, clock, failures, fetched >>

\* -------------------------------------------------------------- sendMessage
\* Mutant of SendMessageGuard: the content is tested without trimming.
SendMessageGuardNoTrim(content) ==
  user # NoUser /\ activeThreadId # Null /\ content # <<>>

\* if (!user?.id || !activeThreadId || !content.trim()) return;
SendMessageGuard(content) ==
  user # NoUser /\ activeThreadId # Null /\ Trim(content) # <<>>

\* sendMessage up to its first await, or to its return when a precondition
\* fails.
SendMessage(content) ==
  \/ /\ ~SendMessageGuard(content)
     /\ Render(user, activeThreadId, threads, messages, isLoading, error, net,
               {}, Step("sendMessage", activeThreadId, content, Null))
     /\ UNCHANGED << srvThreads, srvMessages, clock, gestures, failures, fetched >>
  \/ /\ SendMessageGuard(content)
     /\ GestureAllowed
     /\ gestures' = gestures + 1
     /\ Render(user, activeThreadId, threads, messages, isLoading, error, net,
               {Request(nextRid, "CreateMessage", activeThreadId, TRUE,
                        content, Trim(content), <<>>, <<>>)},
               Step("sendMessage", activeThreadId, content, 1))
     /\ UNCHANGED << srvThreads, srvMessages, clock, failures, fetched >>

\* Mutant of SendMessageUserDone: userMessageError is not tested.
SendMessageUserDoneUnchecked(r) ==
  /\ r.op = "CreateMessage"
  /\ r.is_user
  /\ r.status # "sent"
  /\ IF r.status # "throw"
       THEN Render(user, activeThreadId, threads, messages, isLoading, error,
                   net \ {r},
                   {[Request(nextRid, "CreateMessage", r.tid, FALSE, r.input,
                             Trim(r.input), r.messages, <<>>)
                       EXCEPT !.call = r.call]},
                   Step("sendMessage.user", r.tid, r.input, Null))
       ELSE Render(user, activeThreadId, threads, messages, isLoading,
                   "Failed to send message.", net \ {r}, {},
                   Step("sendMessage.userFailed", r.tid, r.input, Null))
  /\ UNCHANGED << srvThreads, srvMessages, clock, gestures, failures, fetched >>

\* Mutant of SendMessageUserDone: the echo CreateMessage and
\* UpdateThreadTimestamp are issued together, without awaiting the echo.
SendMessageUserDoneEager(r) ==
  /\ r.op = "CreateMessage"
  /\ r.is_user
  /\ r.status # "sent"
  /\ IF r.status = "data"
       THEN Render(user, activeThreadId, threads, messages, isLoading, error,
                   net \ {r},
                   { [Request(nextRid, "CreateMessage", r.tid, FALSE, r.input,
                              Trim(r.input), r.messages, <<>>)
                        EXCEPT !.call = r.call],
                     [Request(nextRid + 1, "UpdateThreadTimestamp", r.tid, FALSE,
                              r.input, <<>>, r.messages, <<>>)
                        EXCEPT !.call = r.call] },
                   Step("sendMessage.user", r.tid, r.input, Null))
       ELSE Render(user, activeThreadId, threads, messages, isLoading,
                   "Failed to send message.", net \ {r}, {},
                   Step("sendMessage.userFailed", r.tid, r.input, Null))
  /\ UNCHANGED << srvThreads, srvMessages, clock, gestures, failures, fetched >>

\* sendMessage from the answer r to the user CreateMessage to the next await.
SendMessageUserDone(r) ==
  /\ r.op = "CreateMessage"
  /\ r.is_user
  /\ r.status # "sent"
  /\ IF r.status = "data"
       THEN Render(user, activeThreadId, threads, messages, isLoading, error,
                   net \ {r},
                   {[Request(nextRid, "CreateMessage", r.tid, FALSE, r.input,
                             Trim(r.input), r.messages, <<>>)
                       EXCEPT !.call = r.call]},
                   Step("sendMessage.user", r.tid, r.input, Null))
       ELSE Render(user, activeThreadId, threads, messages, isLoading,
                   "Failed to send message.", net \ {r}, {},
                   Step("sendMessage.userFailed", r.tid, r.input, Null))
  /\ UNCHANGED << srvThreads, srvMessages, clock, gestures, failures, fetched >>

\* Mutant of SendMessageBotDone: botMessageError is not tested.
SendMessageBotDoneUnchecked(r) ==
  /\ r.op = "CreateMessage"
  /\ ~r.is_user
  /\ r.status # "sent"
  /\ IF r.status # "throw"
       THEN Render(user, activeThreadId, threads, messages, isLoading, error,
                   net \ {r},
                   {[Request(nextRid, "UpdateThreadTimestamp", r.tid, FALSE,
                             r.input, <<>>, r.um, r.messages)
                       EXCEPT !.call = r.call]},
                   Step("sendMessage.bot", r.tid, r.input, Null))
       ELSE Render(user, activeThreadId, threads, messages, isLoading,
                   "Failed to send message.", net \ {r}, {},
                   Step("sendMessage.botFailed", r.tid, r.input, Null))
  /\ UNCHANGED << srvThreads, srvMessages, clock, gestures, failures, fetched >>

\* sendMessage from the answer r to the echo CreateMessage to the next await.
SendMessageBotDone(r) ==
  /\ r.op = "CreateMessage"
  /\ ~r.is_user
  /\ r.status # "sent"
  /\ IF r.status = "data"
       THEN Render(user, activeThreadId, threads, messages, isLoading, error,
                   net \ {r},
                   {[Request(nextRid, "UpdateThreadTimestamp", r.tid, FALSE,
                             r.input, <<>>, r.um, r.messages)
                       EXCEPT !.call = r.call]},
                   Step("sendMessage.bot", r.tid, r.input, Null))
       ELSE Render(user, activeThreadId, threads, messages, isLoading,
                   IF r.status = "error"
                     THEN "Failed to create bot response."
                     ELSE "Failed to send message.",
                   net \ {r}, {},
                   Step("sendMessage.botFailed", r.tid, r.input, Null))
  /\ UNCHANGED << srvThreads, srvMessages, clock, gestures, failures, fetched >>

\* Mutant of SendMessageTouchDone: an error in the answer to
\* UpdateThreadTimestamp ends the send like the errors of the two steps
\* before it.
SendMessageTouchDoneChecked(r) ==
  /\ r.op = "UpdateThreadTimestamp"
  /\ r.status # "sent"
  /\ LET userMessage == r.um
         botMessage  == r.bm
         reflect == r.status = "data" /\ userMessage # <<>> /\ botMessage # <<>>
     IN  /\ Render(user, activeThreadId,
                   IF reflect THEN TouchLocal(threads, r.tid, clock + 1) ELSE threads,
                   IF reflect THEN messages \o userMessage \o botMessage ELSE messages,
                   isLoading,
                   IF r.status # "data" THEN "Failed to send message." ELSE error,
                   net \ {r}, {},
                   Step(IF r.status # "data" THEN "sendMessage.touchFailed"
                                             ELSE "sendMessage.done",
                        r.tid, r.input, Null))
         /\ clock' = IF reflect THEN clock + 1 ELSE clock
  /\ UNCHANGED << srvThreads, srvMessages, gestures, failures, fetched >>

\* sendMessage from the answer r to UpdateThreadTimestamp to its end.  The
\* answer is not inspected: only a rejected request (a throw) skips the rest.
SendMessageTouchDone(r) ==
  /\ r.op = "UpdateThreadTimestamp"
  /\ r.status # "sent"
  /\ LET userMessage == r.um
         botMessage  == r.bm
         reflect == r.status # "throw" /\ userMessage # <<>> /\ botMessage # <<>>
     IN  /\ Render(user, activeThreadId,
                   IF reflect THEN TouchLocal(threads, r.tid, clock + 1) ELSE threads,
                   IF reflect THEN messages \o userMessage \o botMessage ELSE messages,
                   isLoading,
                   IF r.status = "throw" THEN "Failed to send message." ELSE error,
                   net \ {r}, {},
                   Step(IF r.status = "throw" THEN "sendMessage.touchFailed"
                                              ELSE "sendMessage.done",
                        r.tid, r.input, Null))
         /\ clock' = IF reflect THEN clock + 1 ELSE clock
  /\ UNCHANGED << srvThreads, srvMessages, gestures, failures, fetched >>

\* ------------------------------------------------------------ specification
\* The component after its first render and effects: fetchMessages has
\* cleared the message set, and fetchThreads is at its await when the identity
\* provider already supplies a user and has not run when it does not.  The
\* remote store already holds up to MaxSeedThreads threads of the user,
\* thread i last updated at time i.
Init ==
  /\ user \in {NoUser, UserId}
  /\ threads = <<>>
  /\ messages = <<>>
  /\ activeThreadId = Null
  /\ isLoading = TRUE
  /\ error = NoError
  /\ net = IF user = NoUser THEN {}
           ELSE {Request(1, "GetThreads", Null, FALSE, <<>>, <<>>, <<>>, <<>>)}
  /\ nextRid = Cardinality(net) + 1
  /\ \E n \in 0..MaxSeedThreads :
       /\ srvThreads = { [id |-> i, updated_at |-> i] : i \in 1..n }
       /\ clock = n
  /\ srvMessages = {}
  /\ fetched = 0
  /\ issued = IF user = NoUser THEN 0 ELSE 1
  /\ gestures = 0
  /\ failures = 0
  /\ last = Step("mount", Null, <<>>, Null)

\* What the user does.
Gesture ==
  \/ SignIn
  \/ SignOut
  \/ CreateThread
  \/ \E t \in Range(threads) : SelectThread(t.id)
  \/ \E c \in Contents : SendMessage(c)

\* What the gateway does with a request in flight.
Gateway ==
  \/ \E r \in net : GatewayApply(r)
  \/ \E r \in net : GatewayError(r)
  \/ \E r \in net : TransportFailure(r)

\* An answer is delivered and the function awaiting it runs on.
Resume ==
  \/ \E r \in net : FetchThreadsResume(r)
  \/ \E r \in net : FetchMessagesResume(r)
  \/ \E r \in net : CreateThreadResume(r)
  \/ \E r \in net : SendMessageUserDone(r)
  \/ \E r \in net : SendMessageBotDone(r)
  \/ \E r \in net : SendMessageTouchDone(r)

Next == Gesture \/ Gateway \/ Resume

\* The user acts at any time, answers arrive in any order.
Spec == Init /\ [][Next]_vars

\* The user waits for every request to be answered before the next gesture.
NextSettled ==
  \/ net = {} /\ SignIn
  \/ net = {} /\ SignOut
  \/ net = {} /\ CreateThread
  \/ net = {} /\ \E t \in Range(threads) : SelectThread(t.id)
  \/ net = {} /\ \E c \in Contents : SendMessage(c)
  \/ Gateway
  \/ Resume

SpecSettled == Init /\ [][NextSettled]_vars

\* =================================================================== claims

\* ------------------------------------------------------------------------ C1
\* C1: whenever a message-fetch response is installed as the local message
\* set, the thread id the fetch was issued for equals the current
\* activeThreadId (a response for T1 that resolves after the switch to T2
\* never overwrites the message set).
C1_InstalledFetchIsForActiveThread ==
  last.op = "fetchMessages" => last.tid = activeThreadId

\* ------------------------------------------------------------------------ C2
\* C2: a GetThreads response of an earlier fetchThreads call that resolves
\* after a later call has completed (its result installed) is discarded: it
\* does not replace the local thread set.
C2_StaleThreadListDiscarded ==
  [][ \A r \in net :
        ( /\ r.op = "GetThreads"
          /\ r.status = "data"
          /\ r.rid < fetched
          /\ last'.op = "fetchThreads"
          /\ r \notin net' )
        => threads' = threads ]_vars

\* ------------------------------------------------------------------------ C3
\* C3: processing a GetThreads response while activeThreadId is non-null
\* leaves activeThreadId unchanged.
C3_FetchKeepsSelectedThread ==
  [][ (last'.op = "fetchThreads" /\ activeThreadId # Null)
        => activeThreadId' = activeThreadId ]_vars

\* ------------------------------------------------------------------------ C4
\* C4: in every reachable state no two entries of the local thread set have
\* the same id.
C4_ThreadIdsUnique ==
  \A i, j \in 1..Len(threads) : threads[i].id = threads[j].id => i = j

\* ------------------------------------------------------------------------ C5
\* C5: a sendMessage call made while the user id is absent, or activeThreadId
\* is null, or the content is empty after trimming, issues no gateway request
\* and leaves threads, messages, activeThreadId, isLoading and error
\* unchanged.
C5_RejectedSendIsNoOp ==
  [][ ( /\ last'.op = "sendMessage"
        /\ \/ user = NoUser
           \/ activeThreadId = Null
           \/ \A i \in 1..Len(last'.content) : last'.content[i] \in Whitespace )
      => UNCHANGED << threads, messages, activeThreadId, isLoading, error,
                      net, nextRid >> ]_vars

\* A whitespace-only sendMessage was rejected with a user signed in, a thread
\* selected and messages on display.
C5_Witness ==
  /\ last.op = "sendMessage"
  /\ last.ret = Null
  /\ last.content # <<>>
  /\ user # NoUser
  /\ activeThreadId # Null
  /\ messages # <<>>

\* ------------------------------------------------------------------------ C6
\* C6: when the answer to the user CreateMessage of a send is an error or a
\* transport failure, the step that receives it sets error, issues no
\* request (so neither the echo CreateMessage nor UpdateThreadTimestamp of
\* that call is in flight afterwards) and leaves the local message set and
\* thread set unchanged.
C6_UserStepFailureAborts ==
  [][ \A r \in net :
        ( /\ r.op = "CreateMessage"
          /\ r.is_user
          /\ r.status \in {"error", "throw"}
          /\ r \notin net' )
        => /\ error' = "Failed to send message."
           /\ messages' = messages
           /\ threads' = threads
           /\ nextRid' = nextRid
           /\ \A q \in net' : q.call # r.call ]_vars

\* The first step of a send has failed and the send has stopped there.
C6_Witness ==
  /\ last.op = "sendMessage.userFailed"
  /\ error = "Failed to send message."
  /\ \A q \in net : q.op \notin {"CreateMessage", "UpdateThreadTimestamp"}

\* ------------------------------------------------------------------------ C7
\* C7: when the user CreateMessage of a send succeeded and the answer to its
\* echo CreateMessage is an error or a transport failure, the step that
\* receives it sets error, issues no request (no UpdateThreadTimestamp),
\* leaves the local message set and thread set unchanged, and the user
\* message is in the remote store.
C7_EchoStepFailureAborts ==
  [][ \A r \in net :
        ( /\ r.op = "CreateMessage"
          /\ ~r.is_user
          /\ r.status \in {"error", "throw"}
          /\ r \notin net' )
        => /\ error' # NoError
           /\ messages' = messages
           /\ threads' = threads
           /\ nextRid' = nextRid
           /\ \A q \in net' : q.call # r.call
           /\ r.um # <<>>
           /\ r.um[1] \in srvMessages'
           /\ r.um[1].is_user ]_vars

\* The echo step of a send has failed: the user message is in the store and
\* not on display.
C7_Witness ==
  /\ last.op = "sendMessage.botFailed"
  /\ error = "Failed to create bot response."
  /\ \E m \in srvMessages : m.is_user /\ m \notin Range(messages)

\* ------------------------------------------------------------------------ C8
\* C8 as claimed: when the answer to UpdateThreadTimestamp is an error or a
\* transport failure and both messages of the send were returned, the step
\* that receives it appends both messages to the local message set and
\* advances the local updated_at of the thread sent to.
C8_TouchFailureNotFatal ==
  [][ \A r \in net :
        ( /\ r.op = "UpdateThreadTimestamp"
          /\ r.status \in {"error", "throw"}
          /\ r.um # <<>> /\ r.bm # <<>>
          /\ r \notin net' )
        => /\ messages' = messages \o r.um \o r.bm
           /\ Len(threads') = Len(threads)
           /\ \A i \in 1..Len(threads) :
                threads[i].id = r.tid
                  => threads'[i].updated_at > threads[i].updated_at ]_vars

\* C8 as amended: an error in the answer to UpdateThreadTimestamp is not
\* fatal (both messages are appended and every local entry of the thread sent
\* to has its updated_at advanced); a transport failure of that request sets
\* error and leaves the local message set and thread set unchanged.
C8_TouchErrorNotFatalThrowAborts ==
  [][ \A r \in net :
        ( /\ r.op = "UpdateThreadTimestamp"
          /\ r.status \in {"error", "throw"}
          /\ r.um # <<>> /\ r.bm # <<>>
          /\ r \notin net' )
        => IF r.status = "error"
             THEN /\ messages' = messages \o r.um \o r.bm
                  /\ Len(threads') = Len(threads)
                  /\ \A i \in 1..Len(threads) :
                       /\ threads'[i].id = threads[i].id
                       /\ threads[i].id = r.tid
                            => threads'[i].updated_at > threads[i].updated_at
             ELSE /\ error' = "Failed to send message."
                  /\ messages' = messages
                  /\ threads' = threads ]_vars

\* A send has ended with both messages on display although the store never
\* touched the thread: its updated_at there is older than the messages.
C8_Witness ==
  /\ last.op = "sendMessage.done"
  /\ \E t \in srvThreads :
       /\ t.id = last.tid
       /\ \E i \in 1..Len(threads) :
            threads[i].id = t.id /\ threads[i].updated_at > t.updated_at
       /\ \E j \in 1..Len(messages) :
            messages[j].thread_id = t.id /\ messages[j].created_at > t.updated_at

\* ------------------------------------------------------------------------ C9
\* The steps of sendMessage, as last.op names them.
SendSteps ==
  { "sendMessage", "sendMessage.user", "sendMessage.userFailed",
    "sendMessage.bot", "sendMessage.botFailed", "sendMessage.touchFailed",
    "sendMessage.done" }

\* C9: within one sendMessage call the echo CreateMessage is issued only by
\* the step that receives the data of the user CreateMessage, the
\* UpdateThreadTimestamp only by the step that receives the data of the echo
\* CreateMessage, the local message set and thread set are changed only by the
\* step that receives the answer to UpdateThreadTimestamp, and no two requests
\* of the call are ever in flight together.
C9_SendStepsSequential ==
  [][ /\ \A q \in net' :
           (q.rid >= nextRid /\ q.op = "CreateMessage" /\ ~q.is_user)
             => \E r \in net : /\ r.call = q.call
                               /\ r.op = "CreateMessage" /\ r.is_user
                               /\ r.status = "data"
                               /\ r \notin net'
      /\ \A q \in net' :
           (q.rid >= nextRid /\ q.op = "UpdateThreadTimestamp")
             => \E r \in net : /\ r.call = q.call
                               /\ r.op = "CreateMessage" /\ ~r.is_user
                               /\ r.status = "data"
                               /\ r \notin net'
      /\ (last'.op \in SendSteps /\ (messages' # messages \/ threads' # threads))
           => \E r \in net : /\ r.op = "UpdateThreadTimestamp"
                             /\ r.status # "sent"
                             /\ r \notin net'
      /\ \A q1, q2 \in net' : q1.call = q2.call => q1 = q2 ]_vars

\* A send has gone through its three requests and its local append.
C9_Witness ==
  /\ last.op = "sendMessage.done"
  /\ Len(messages) >= 2
  /\ messages[Len(messages) - 1].is_user
  /\ ~messages[Len(messages)].is_user
  /\ \E t \in srvThreads :
       t.id = last.tid /\ t.updated_at > messages[Len(messages)].created_at

\* ----------------------------------------------------------------------- C10
\* C10: the local message set is always ordered by created_at ascending and
\* is a sequence of (is_user = true, is_user = false) pairs whose two members
\* have the same content.
C10_MessagesOrderedInPairs ==
  /\ \A i \in 1..Len(messages) :
       i < Len(messages) => messages[i].created_at <= messages[i + 1].created_at
  /\ \E n \in 0..Len(messages) : Len(messages) = n + n
  /\ \A i \in 1..Len(messages) :
       (\E k \in 1..Len(messages) : i + 1 = k + k)
         => /\ i < Len(messages)
            /\ messages[i].is_user
            /\ ~messages[i + 1].is_user
            /\ messages[i].content = messages[i + 1].content

\* ----------------------------------------------------------------------- C11
\* C11: when createThread receives the created thread from the gateway, the
\* new thread becomes the first element of the local thread set with the
\* previous entries following in their prior order, activeThreadId becomes
\* the new thread's id, the local message set becomes empty, and the call
\* returns the new id.
C11_CreateThreadSuccess ==
  [][ \A r \in net :
        ( /\ r.op = "CreateThread"
          /\ r.status = "data"
          /\ r.threads # <<>>
          /\ r \notin net'
          /\ last'.op = "createThread.return" )
        => /\ threads' = <<r.threads[1]>> \o threads
           /\ activeThreadId' = r.threads[1].id
           /\ messages' = <<>>
           /\ last'.ret = r.threads[1].id ]_vars

\* A thread was created while another thread with messages was shown: it
\* heads the list, the earlier threads follow, and it is selected.
C11_Witness ==
  /\ last.op = "createThread.return"
  /\ last.ret # Null
  /\ Len(threads) >= 2
  /\ threads[1].id = last.ret
  /\ activeThreadId = last.ret
  /\ messages = <<>>
  /\ \E m \in srvMessages : m.thread_id = threads[2].id

\* ----------------------------------------------------------------------- C12
\* C12: createThread called while no user id is present returns null, issues
\* no gateway request, and leaves the local thread set, the local message
\* set, activeThreadId and error unchanged.
C12_CreateThreadWithoutUser ==
  [][ (last'.op = "createThread" /\ user = NoUser)
        => /\ last'.ret = Null
           /\ net' = net
           /\ nextRid' = nextRid
           /\ UNCHANGED << threads, messages, activeThreadId, error >> ]_vars

\* createThread has returned null to a signed-out user who still sees the
\* threads fetched before the session ended.
C12_Witness ==
  /\ last.op = "createThread"
  /\ last.ret = Null
  /\ user = NoUser
  /\ threads # <<>>
  /\ activeThreadId # Null
  /\ net = {}

\* ----------------------------------------------------------------------- C13
\* C13: when the CreateThread request fails, with an error answer or in
\* transport, createThread sets error, leaves the local thread set,
\* activeThreadId and the local message set unchanged and returns null; and
\* no step ever adds a thread to the local thread set other than one carried
\* by the gateway answer that the step consumes.
C13_CreateThreadFailure ==
  [][ /\ \A r \in net :
           ( /\ r.op = "CreateThread"
             /\ r.status \in {"error", "throw"}
             /\ r \notin net'
             /\ last'.op = "createThread.return" )
           => /\ error' = "Failed to create thread."
              /\ UNCHANGED << threads, activeThreadId, messages >>
              /\ last'.ret = Null
      /\ \A t \in Range(threads') :
           (\A s \in Range(threads) : s.id # t.id)
             => \E r \in net : /\ r \notin net'
                               /\ r.status = "data"
                               /\ \E x \in Range(r.threads) : x.id = t.id ]_vars

\* A creation has failed while a thread with messages was shown.
C13_Witness ==
  /\ last.op = "createThread.return"
  /\ last.ret = Null
  /\ error = "Failed to create thread."
  /\ threads # <<>>
  /\ activeThreadId # Null
  /\ messages # <<>>

\* ----------------------------------------------------------------------- C14
\* C14: when a GetThreads call fails, with an error answer or in transport,
\* the local thread set and activeThreadId are exactly as before the call
\* completed, error is non-null after it, and whenever a thread fetch has
\* been started and none remains in flight the loading flag is false.
C14_FetchThreadsFailure ==
  [][ /\ \A r \in net :
           ( /\ r.op = "GetThreads"
             /\ r.status \in {"error", "throw"}
             /\ r \notin net'
             /\ last'.op = "fetchThreads" )
           => /\ UNCHANGED << threads, activeThreadId >>
              /\ error' # NoError
      /\ (issued' # 0 /\ \A q \in net' : q.op # "GetThreads")
           => ~isLoading' ]_vars

\* A thread fetch has failed after an earlier one had filled the thread set
\* and selected a thread; no thread fetch remains in flight.
C14_Witness ==
  /\ last.op = "fetchThreads"
  /\ failures > 0
  /\ error \in { "Failed to fetch threads. Make sure GraphQL permissions are set up correctly.",
                 "Failed to connect to the database." }
  /\ threads # <<>>
  /\ activeThreadId # Null
  /\ \A q \in net : q.op # "GetThreads"
  /\ ~isLoading

\* ----------------------------------------------------------------------- C15
\* C15: the local thread set is always ordered by updated_at descending.
C15_ThreadsOrderedByUpdatedDesc ==
  \A i \in 1..Len(threads) :
    i < Len(threads) => threads[i].updated_at >= threads[i + 1].updated_at

\* ----------------------------------------------------------------------- C16
\* C16: isLoading is true whenever the fetchThreads call started last is
\* still in flight, and false once that call has completed.
C16_LoadingFollowsLatestFetch ==
  issued # 0 =>
    IF \E r \in net : r.rid = issued THEN isLoading ELSE ~isLoading

\* ----------------------------------------------------------------------- C17
\* C17: when a GetThreads call succeeds the local thread set is replaced by
\* exactly the fetched list; if no thread is selected and the fetched list is
\* non-empty, activeThreadId becomes the id of the first fetched thread; if
\* no thread is selected and the fetched list is empty, activeThreadId stays
\* null.
C17_FetchThreadsSuccess ==
  [][ \A r \in net :
        ( /\ r.op = "GetThreads"
          /\ r.status = "data"
          /\ r \notin net'
          /\ last'.op = "fetchThreads" )
        => /\ threads' = r.threads
           /\ (activeThreadId = Null /\ r.threads # <<>>)
                => activeThreadId' = r.threads[1].id
           /\ (activeThreadId = Null /\ r.threads = <<>>)
                => activeThreadId' = Null ]_vars

\* The mount fetch, made with no thread selected, has installed the two
\* threads of the store and selected the first; its messages are being
\* fetched.
C17_Witness ==
  /\ last.op = "fetchThreads"
  /\ last.tid = Null
  /\ fetched = 1
  /\ Len(threads) >= 2
  /\ threads = GetThreadsRows
  /\ activeThreadId = threads[1].id
  /\ \E q \in net : q.op = "GetMessages" /\ q.tid = activeThreadId

\* ----------------------------------------------------------------------- C18
\* C18: whenever no message fetch is in flight, every message of the local
\* message set belongs to the thread activeThreadId names; a send started on
\* one thread that completes after another thread was selected does not
\* append to the other thread's message set.  Stated for the runs in which
\* no request has failed.
C18_MessagesBelongToActiveThread ==
  (failures = 0 /\ \A q \in net : q.op # "GetMessages")
    => \A i \in 1..Len(messages) : messages[i].thread_id = activeThreadId

\* ----------------------------------------------------------------------- C19
\* C19: the local message set never contains two entries with the same id.
C19_MessageIdsUnique ==
  \A i, j \in 1..Len(messages) : messages[i].id = messages[j].id => i = j

\* ----------------------------------------------------------------------- C20
\* C20: selectThread being called only with ids of the local thread set,
\* activeThreadId is null or the id of a thread of the local thread set after
\* every step, and once non-null it never becomes null again.
C20_ActiveThreadIsLocal ==
  [][ /\ \/ activeThreadId' = Null
         \/ \E i \in 1..Len(threads') : threads'[i].id = activeThreadId'
      /\ activeThreadId # Null => activeThreadId' # Null ]_vars

====
